---- MODULE Spec2Model ----
(***************************************************************************)
(* State-machine model of alpaca_client/streaming.py: the AlpacaStream     *)
(* session (connect / authenticate / subscribe / run loop / reconnect).    *)
(*                                                                         *)
(* The websocket peer is the environment: it queues frames for the client  *)
(* (inbox), acknowledges requests, drops the connection, or goes down.     *)
(* Every public operation of the class is one action; run() is cut at its  *)
(* suspension points (top of the loop, the blocking recv, the backoff      *)
(* sleep), so that stop() and the peer interleave where they can in the    *)
(* program.                                                                *)
(***************************************************************************)
EXTENDS Integers, Sequences, FiniteSets, TLC

\* ---------------------------------------------------------------- bounds
MaxSubs == 2              \* symbols held in the registry, all channels together
MaxArgSyms == 1           \* symbols passed to one subscribe / unsubscribe call
MaxHandlers == 2          \* handlers registered, all kinds together
MaxBatch == 2             \* messages in one inbound frame
MaxInbox == 1             \* data frames the peer has in flight
MaxBacklog == 2           \* the same, for a session whose frames are followed in order
\* StreamConfig values the model runs with (defaults are 10 and 60.0)
reconnect_attempts == 3
max_reconnect_delay == 3
\* StreamConfig.reconnect_delay (default)
reconnect_delay == 1

\* ---------------------------------------------------------------- data
\* Subscription's six sets, by the key each has in the subscribe message
Channels == {"trades", "quotes", "bars", "dailyBars", "statuses", "lulds"}
\* the keyword parameters unsubscribe() has
UnsubChannels == {"trades", "quotes", "bars", "dailyBars"}
\* the registry sets _resubscribe() reads and passes on
ResubChannels == {"trades", "quotes", "bars", "dailyBars"}

InputSymbols == {"aapl", "AAPL", "MSFT"}
\* str.upper() on the symbols of the model
upper(s) == IF s = "aapl" THEN "AAPL" ELSE s
Symbols == {upper(s) : s \in InputSymbols}

\* kinds ("T") a wire message can carry, and the keys handlers are kept under
WireKinds == {"t", "q", "error", "subscription"}
HandlerKinds == WireKinds \cup {"connected", "disconnected"}
\* what a registered callable does when invoked
Behaviours == {"returns", "raises"}
\* a plain function and a coroutine function (awaited by _emit)
AwaitBehaviours == {"returns", "suspends"}

\* what json.loads makes of a frame: an object (reduced to its "T"), an array
\* of values, or a value that is neither (a number, a string); Undecodable is
\* a frame json.loads rejects
Obj(kind) == [json |-> "object", T |-> kind]
Arr(items) == [json |-> "array", items |-> items]
Num == [json |-> "number"]
Undecodable == [json |-> "invalid"]
\* the array of objects with the kinds given
Batch(kinds) == Arr([i \in DOMAIN kinds |-> Obj(kinds[i])])

RECURSIVE SeqsUpTo(_, _)
SeqsUpTo(S, n) ==
    IF n = 0 THEN {<<>>}
    ELSE LET shorter == SeqsUpTo(S, n - 1)
         IN shorter \cup {Append(q, x) : q \in {p \in shorter : Len(p) = n - 1}, x \in S}
Frames == {Batch(ks) : ks \in SeqsUpTo(WireKinds, MaxBatch) \ {<<>>}}
\* what the peer streams unasked: data and errors ("subscription" is its reply
\* to a request)
PushFrames == {Batch(ks) : ks \in SeqsUpTo(WireKinds \ {"subscription"}, MaxBatch) \ {<<>>}}
\* data frames of trades and quotes: arrays, and single objects
DataKinds == {"t", "q"}
DataFrames ==
    {Batch(<<"t">>), Batch(<<"t", "q">>), Batch(<<"q", "t">>)} \cup {Obj(k) : k \in DataKinds}
\* frames _handle_message cannot walk: not JSON, a number, an array that holds
\* a number
MalformedFrames == {Undecodable, Num, Arr(<<Num>>), Arr(<<Obj("t"), Num>>)}
\* frames tagged with the name of an event of the session
LifecycleKinds == {"connected", "disconnected"}
LifecycleFrames == {Batch(<<k>>) : k \in LifecycleKinds}
AckFrame == Batch(<<"subscription">>)
\* no frame: None
NoFrame == [json |-> "none"]

\* the arguments of one call: per channel a list of symbols, read as a set
\* (an empty set stands for None and for an empty list: both are falsy)
Pairs(chans) == chans \X InputSymbols
RECURSIVE PairSets(_, _)
PairSets(P, n) ==
    IF n = 0 THEN {{}}
    ELSE LET smaller == PairSets(P, n - 1)
         IN smaller \cup {s \cup {p} : s \in smaller, p \in P}
ArgsOf(chans, ps) == [c \in chans |-> {p[2] : p \in {q \in ps : q[1] = c}}]
SubscribeArgs == {ArgsOf(Channels, ps) : ps \in PairSets(Pairs(Channels), MaxArgSyms)}
UnsubscribeArgs == {ArgsOf(UnsubChannels, ps) : ps \in PairSets(Pairs(UnsubChannels), MaxArgSyms)}
NoArgs == <<>>

EmptySubscription == [c \in Channels |-> {}]
RECURSIVE SumCard(_, _)
SumCard(f, D) ==
    IF D = {} THEN 0
    ELSE LET c == CHOOSE x \in D : TRUE IN Cardinality(f[c]) + SumCard(f, D \ {c})
SubsSize(subs) == SumCard(subs, Channels)

Min(a, b) == IF a < b THEN a ELSE b
RECURSIVE Pow2(_)
Pow2(n) == IF n = 0 THEN 1 ELSE 2 * Pow2(n - 1)

VARIABLES
    ws,               \* _ws: "none" (None), "open", "closed" (object kept, transport gone)
    connected,        \* _connected
    authenticated,    \* _authenticated
    running,          \* _running
    reconnect_count,  \* _reconnect_count
    subscriptions,    \* _subscriptions
    handlers,         \* _handlers (a kind without handlers: the empty list)
    auto_reconnect,   \* config.auto_reconnect
    trading,          \* the session is a TradingStream
    pc,               \* where run() is: "idle" (not running), "top", "recv", "backoff"
    delay,            \* the delay _reconnect is sleeping for, 0 outside the sleep
    inbox,            \* frames the peer has queued on the current connection
    srv,              \* the peer's side of the current connection: "none",
                      \* "unauth", "auth", "subscribed" (it has symbols to stream)
    net,              \* FALSE once the network is down for good
    fails,            \* history: reconnection attempts failed in a row
    lastOp,           \* history: the operation that made the last step
    emitted,          \* history: events the last step passed to _emit, in order
    sentMsgs,         \* history: requests the last step sent, in order
    calls             \* history: handler invocations of the last step, in order

prog == <<ws, connected, authenticated, running, reconnect_count, subscriptions,
          handlers, auto_reconnect, trading, pc, delay>>
env == <<inbox, srv, net>>
hist == <<fails, lastOp, emitted, sentMsgs, calls>>
vars == <<prog, env, hist>>

\* one step on record: the operation, whether it succeeded, the frame it
\* returned or handled, whether run() returned in it, whether stop() had been
\* called, the session was authenticated and what _ws was when it started
\* and, for unsubscribe, the arguments and the registry it started from
Op(name, args, ok, ret, exit) ==
    [op |-> name, ok |-> ok, ret |-> ret, exit |-> exit,
     stopped |-> ~running, wasAuth |-> authenticated, wsWas |-> ws,
     args |-> args, before |-> IF args = NoArgs THEN EmptySubscription ELSE subscriptions]

\* __init__ of AlpacaStream, which TradingStream calls with its own endpoint
Construct(isTrading) ==
    /\ trading = isTrading
    /\ ws = "none"
    /\ connected = FALSE
    /\ authenticated = FALSE
    /\ running = FALSE
    /\ reconnect_count = 0
    /\ subscriptions = EmptySubscription
    /\ handlers = [k \in HandlerKinds |-> <<>>]
    /\ auto_reconnect \in BOOLEAN
    /\ pc = "idle"
    /\ delay = 0
    /\ inbox = <<>>
    /\ srv = "none"
    /\ net = TRUE
    /\ fails = 0
    /\ lastOp = Op("init", NoArgs, TRUE, NoFrame, FALSE)
    /\ emitted = <<>>
    /\ sentMsgs = <<>>
    /\ calls = <<>>

Init == Construct(FALSE)
TradingInit == Construct(TRUE)

\* ---------------------------------------------------------------- helpers
\* the session as the methods see it, with the logs of the step in progress
Cur ==
    [ws |-> ws, connected |-> connected, authenticated |-> authenticated,
     running |-> running, reconnect_count |-> reconnect_count,
     subscriptions |-> subscriptions, inbox |-> inbox, srv |-> srv,
     emitted |-> <<>>, sentMsgs |-> <<>>, calls |-> <<>>,
     ok |-> TRUE, ret |-> NoFrame]

\* _emit that walks the list from its end
EmitCallsNewestFirst(h, m, kind) ==
    [i \in 1..Len(h[kind]) |-> <<m, kind, Len(h[kind]) + 1 - i>>]

\* _emit with the try around the loop: the first handler that raises ends it
EmitCallsUntilRaise(h, m, kind) ==
    LET n == Len(h[kind])
        bad == {i \in 1..n : h[kind][i] = "raises"}
        last == IF bad = {} THEN n ELSE CHOOSE i \in bad : \A j \in bad : i <= j
    IN [i \in 1..last |-> <<m, kind, i>>]

\* the handlers _emit invokes for one event: all of event_type, in list order;
\* what a handler raises is caught inside the loop. m is the position of the
\* message in its frame, 0 for an event of the session itself.
EmitCalls(h, m, kind) == [i \in 1..Len(h[kind]) |-> <<m, kind, i>>]

Emit(s, m, kind) ==
    [s EXCEPT !.emitted = Append(@, kind),
              !.calls = @ \o EmitCalls(handlers, m, kind)]

\* a frame that is not an array holds no message
messagesOfArrays(data) == IF data.json = "array" THEN data.items ELSE <<>>

\* messages = data if isinstance(data, list) else [data]
messages(data) == IF data.json = "array" THEN data.items ELSE <<data>>

\* _handle_message without the branch for "subscription"
RouteAckToHandlers(s, m, msg) ==
    IF msg.json # "object" THEN [s EXCEPT !.ok = FALSE]
    ELSE IF msg.T = "error" THEN Emit(s, m, "error")
    ELSE IF msg.T \in DOMAIN handlers /\ Len(handlers[msg.T]) > 0 THEN Emit(s, m, msg.T)
    ELSE s

\* the branch _handle_message takes for one message; msg.get raises on a
\* value that is not an object (s.ok = FALSE: an exception is on its way up)
Route(s, m, msg) ==
    IF msg.json # "object" THEN [s EXCEPT !.ok = FALSE]
    ELSE IF msg.T = "error" THEN Emit(s, m, "error")
    ELSE IF msg.T = "subscription" THEN s
    ELSE IF msg.T \in DOMAIN handlers /\ Len(handlers[msg.T]) > 0 THEN Emit(s, m, msg.T)
    ELSE s

\* the loop of _handle_message over reversed(messages)
RECURSIVE HandleBackwards(_, _, _)
HandleBackwards(s, msgs, m) ==
    IF m > Len(msgs) \/ ~s.ok THEN s
    ELSE LET n == Len(msgs) + 1 - m
         IN HandleBackwards(Route(s, n, msgs[n]), msgs, m + 1)

RECURSIVE HandleFrom(_, _, _)
HandleFrom(s, msgs, m) ==
    IF m > Len(msgs) \/ ~s.ok THEN s
    ELSE HandleFrom(Route(s, m, msgs[m]), msgs, m + 1)

\* _handle_message: JSONDecodeError is caught and the frame dropped, any other
\* exception leaves it
handle_message(s, frame) ==
    IF frame = Undecodable THEN s ELSE HandleFrom(s, messages(frame), 1)

\* msg of subscribe() / unsubscribe(): the action, and for every parameter that
\* is given and not empty its key with the uppercased symbols
UpperAll(syms) == {upper(x) : x \in syms}
RequestMsg(action, args) ==
    [action |-> action,
     chans |-> [c \in {d \in DOMAIN args : args[d] # {}} |-> UpperAll(args[c])]]

SubscribeRegistry(subs, args) ==
    [c \in Channels |-> IF c \in DOMAIN args /\ args[c] # {}
                        THEN subs[c] \cup UpperAll(args[c]) ELSE subs[c]]

\* unsubscribe without the uppercasing
UnsubscribeRegistryAsGiven(subs, args) ==
    [c \in Channels |-> IF c \in DOMAIN args /\ args[c] # {}
                        THEN subs[c] \ args[c] ELSE subs[c]]

UnsubscribeRegistry(subs, args) ==
    [c \in Channels |-> IF c \in DOMAIN args /\ args[c] # {}
                        THEN subs[c] \ UpperAll(args[c]) ELSE subs[c]]

\* what the peer answers to a request
Reply(s) == IF s.srv \in {"auth", "subscribed"} THEN AckFrame ELSE Batch(<<"error">>)

\* self._ws.send(...) then self._ws.recv(): how is what the transport does,
\* "ok", "send_raises" or "recv_raises". With no transport object the send
\* raises at once; recv returns the oldest frame queued, the reply behind it.
RoundTrip(s, msg, how) ==
    IF s.ws # "open" THEN [s EXCEPT !.ok = FALSE]
    ELSE IF how = "send_raises"
    THEN [s EXCEPT !.ok = FALSE, !.ws = "closed", !.inbox = <<>>, !.srv = "none"]
    ELSE IF how = "recv_raises"
    THEN [s EXCEPT !.ok = FALSE, !.ws = "closed", !.inbox = <<>>, !.srv = "none",
                   !.sentMsgs = Append(@, msg)]
    ELSE LET queue == Append(s.inbox, Reply(s))
         IN [s EXCEPT !.ok = TRUE, !.ret = Head(queue), !.inbox = Tail(queue),
                      !.sentMsgs = Append(@, msg),
                      !.srv = IF /\ \/ msg.action = "listen"
                                    \/ msg.action = "subscribe" /\ DOMAIN msg.chans # {}
                                 /\ s.srv = "auth"
                              THEN "subscribed" ELSE @]

subscribe(s, args, how) ==
    RoundTrip([s EXCEPT !.subscriptions = SubscribeRegistry(@, args)],
              RequestMsg("subscribe", args), how)

unsubscribe(s, args, how) ==
    RoundTrip([s EXCEPT !.subscriptions = UnsubscribeRegistry(@, args)],
              RequestMsg("unsubscribe", args), how)

\* _resubscribe(): the condition it tests and the arguments it passes on
ResubscribeNeeded(subs) == \E c \in ResubChannels : subs[c] # {}
ResubscribeArgs(subs) == [c \in Channels |-> IF c \in ResubChannels THEN subs[c] ELSE {}]

resubscribe(s, how) ==
    IF ResubscribeNeeded(s.subscriptions)
    THEN subscribe(s, ResubscribeArgs(s.subscriptions), how)
    ELSE s

\* TradingStream.subscribe_trade_updates() and the _resubscribe() that
\* TradingStream puts in the place of the one above
ListenMsg == [action |-> "listen", chans |-> <<>>]
subscribe_trade_updates(s, how) == RoundTrip(s, ListenMsg, how)
TradingStream_resubscribe(s, how) == subscribe_trade_updates(s, how)

\* a TradingStream without the override
self_resubscribe_inherited(isTrading, s, how) == resubscribe(s, how)

\* self._resubscribe() as the class of the session resolves it
self_resubscribe(isTrading, s, how) ==
    IF isTrading THEN TradingStream_resubscribe(s, how) ELSE resubscribe(s, how)

\* disconnect with the event emitted inside "if self._ws"
disconnect_emit_if_ws(s) ==
    LET d == [s EXCEPT !.running = FALSE, !.ws = "none", !.connected = FALSE,
                       !.authenticated = FALSE, !.inbox = <<>>, !.srv = "none"]
    IN IF s.ws # "none" THEN Emit(d, 0, "disconnected") ELSE d

\* disconnect that leaves _authenticated as it is
disconnect_keep_authenticated(s) ==
    Emit([s EXCEPT !.running = FALSE, !.ws = "none", !.connected = FALSE,
                   !.inbox = <<>>, !.srv = "none"],
         0, "disconnected")

\* disconnect without "if self._ws": close() is called on None
disconnect_unguarded(s) ==
    IF s.ws = "none" THEN [s EXCEPT !.running = FALSE, !.ok = FALSE]
    ELSE Emit([s EXCEPT !.running = FALSE, !.ws = "none", !.connected = FALSE,
                        !.authenticated = FALSE, !.inbox = <<>>, !.srv = "none"],
              0, "disconnected")

disconnect(s) ==
    Emit([s EXCEPT !.running = FALSE, !.ws = "none", !.connected = FALSE,
                   !.authenticated = FALSE, !.inbox = <<>>, !.srv = "none"],
         0, "disconnected")

AuthMsg == [action |-> "auth", chans |-> <<>>]

\* the objects of a reply to the auth message, with their "T" and "msg", and
\* the replies made of them: arrays and single objects
AuthObj(T, msg) == [json |-> "object", T |-> T, msg |-> msg]
AuthElements ==
    {AuthObj("success", "authenticated"), AuthObj("success", "connected"),
     AuthObj("error", "auth failed")}
AuthReplies == {Arr(items) : items \in SeqsUpTo(AuthElements, MaxBatch)} \cup AuthElements

\* _authenticate that returns True if any element is the success
AuthAnySuccess(msgs, i) ==
    \E j \in i..Len(msgs) : msgs[j].T = "success" /\ msgs[j].msg = "authenticated"

\* the loop of _authenticate over the reply, from element i on
RECURSIVE AuthFrom(_, _)
AuthFrom(msgs, i) ==
    IF i > Len(msgs) THEN FALSE
    ELSE IF msgs[i].T = "success" /\ msgs[i].msg = "authenticated" THEN TRUE
    ELSE IF msgs[i].T = "error" THEN FALSE
    ELSE AuthFrom(msgs, i + 1)

\* what _authenticate returns for a reply, as an outcome of connect()
authenticate(reply) == AuthFrom(messages(reply), 1)
OutcomeOf(reply) == IF authenticate(reply) THEN "authenticated" ELSE "auth_rejected"
ConnectOutcomes == {"open_raises", "handshake_raises", "auth_rejected", "authenticated"}
TransportModes == {"ok", "send_raises", "recv_raises"}

\* connect(): outcome is what the peer does with the new connection, how what
\* the transport does with the request of _resubscribe. s.ok is the value
\* connect() returns. isTrading: the session is a TradingStream.
connect_of(isTrading, s, outcome, how) ==
    CASE outcome = "open_raises" ->
            Emit([s EXCEPT !.ok = FALSE], 0, "error")
      [] outcome = "handshake_raises" ->
            Emit([s EXCEPT !.ok = FALSE, !.ws = "closed", !.connected = TRUE,
                           !.inbox = <<>>, !.srv = "none"], 0, "error")
      [] outcome = "auth_rejected" ->
            [s EXCEPT !.ok = FALSE, !.ws = "open", !.connected = TRUE,
                      !.inbox = <<>>, !.srv = "unauth", !.sentMsgs = <<AuthMsg>>]
      [] outcome = "authenticated" ->
            LET a == Emit([s EXCEPT !.ws = "open", !.connected = TRUE,
                                    !.authenticated = TRUE, !.reconnect_count = 0,
                                    !.inbox = <<>>, !.srv = "auth",
                                    !.sentMsgs = <<AuthMsg>>], 0, "connected")
                r == [self_resubscribe(isTrading, a, how) EXCEPT !.ret = NoFrame]
            IN IF r.ok THEN r ELSE Emit(r, 0, "error")

connect(s, outcome, how) == connect_of(trading, s, outcome, how)

\* __aenter__: connect(), whose result is dropped
aenter(s, outcome, how) == [connect(s, outcome, how) EXCEPT !.ok = TRUE]

\* __aexit__ that returns True
aexit_suppresses(s, exc) == [disconnect(s) EXCEPT !.ok = TRUE]

\* __aexit__: disconnect() and return False. exc: the body raised; s.ok: the
\* async with statement ends without an exception
aexit(s, exc) == LET d == disconnect(s) IN [d EXCEPT !.ok = d.ok /\ ~exc]

\* the delay of _reconnect() for the attempt that takes the counter to n
Backoff(n) == Min(reconnect_delay * Pow2(n - 1), max_reconnect_delay)

\* _reconnect() returns False without an attempt
ReconnectRefused(s) ==
    ~auto_reconnect \/ s.reconnect_count >= reconnect_attempts

\* what run() does once its loop is left
run_exit(s) == disconnect(s)

Apply(s) ==
    /\ ws' = s.ws
    /\ connected' = s.connected
    /\ authenticated' = s.authenticated
    /\ running' = s.running
    /\ reconnect_count' = s.reconnect_count
    /\ subscriptions' = s.subscriptions
    /\ inbox' = s.inbox
    /\ srv' = s.srv
    /\ emitted' = s.emitted
    /\ sentMsgs' = s.sentMsgs
    /\ calls' = s.calls

HandlerCount == SumCard([k \in HandlerKinds |-> DOMAIN handlers[k]], HandlerKinds)

\* the transport carries a request of _resubscribe in this connect()
ResubscribeSends(outcome) ==
    outcome = "authenticated" /\ (trading \/ ResubscribeNeeded(subscriptions))

\* ---------------------------------------------------------------- caller
\* on(event_type)(func), before the session is used
On(kind, b) ==
    /\ lastOp.op \in {"init", "on"}
    /\ HandlerCount < MaxHandlers
    /\ handlers' = [handlers EXCEPT ![kind] = Append(@, b)]
    /\ lastOp' = Op("on", NoArgs, TRUE, NoFrame, FALSE)
    /\ Apply(Cur)
    /\ UNCHANGED <<auto_reconnect, trading, pc, delay, net, fails>>

Connect(outcome, how) ==
    /\ pc = "idle"
    /\ net \/ outcome = "open_raises"
    /\ ResubscribeSends(outcome) \/ how = "ok"
    /\ LET c == connect(Cur, outcome, how)
       IN /\ Apply(c)
          /\ lastOp' = Op("connect", NoArgs, c.ok, NoFrame, FALSE)
          /\ fails' = IF c.ok THEN 0 ELSE fails
    /\ UNCHANGED <<handlers, auto_reconnect, trading, pc, delay, net>>

\* connect() on a transport that opens and welcomes, the peer answering the
\* auth message with reply
ConnectAuth(reply, how) ==
    /\ pc = "idle"
    /\ net
    /\ ResubscribeSends(OutcomeOf(reply)) \/ how = "ok"
    /\ LET c == connect(Cur, OutcomeOf(reply), how)
       IN /\ Apply(c)
          /\ lastOp' = Op("connect", NoArgs, c.ok, reply, FALSE)
          /\ fails' = IF c.ok THEN 0 ELSE fails
    /\ UNCHANGED <<handlers, auto_reconnect, trading, pc, delay, net>>

Subscribe(args, how) ==
    /\ pc = "idle"
    /\ ws = "open" \/ how = "ok"
    /\ SubsSize(SubscribeRegistry(subscriptions, args)) <= MaxSubs
    /\ LET r == subscribe(Cur, args, how)
       IN /\ Apply(r)
          /\ lastOp' = Op("subscribe", NoArgs, r.ok, r.ret, FALSE)
    /\ UNCHANGED <<handlers, auto_reconnect, trading, pc, delay, net, fails>>

Unsubscribe(args, how) ==
    /\ pc = "idle"
    /\ ws = "open" \/ how = "ok"
    /\ LET r == unsubscribe(Cur, args, how)
       IN /\ Apply(r)
          /\ lastOp' = Op("unsubscribe", args, r.ok, r.ret, FALSE)
    /\ UNCHANGED <<handlers, auto_reconnect, trading, pc, delay, net, fails>>

SubscribeTradeUpdates(how) ==
    /\ pc = "idle"
    /\ ws = "open" \/ how = "ok"
    /\ LET r == subscribe_trade_updates(Cur, how)
       IN /\ Apply(r)
          /\ lastOp' = Op("subscribe_trade_updates", NoArgs, r.ok, r.ret, FALSE)
    /\ UNCHANGED <<handlers, auto_reconnect, trading, pc, delay, net, fails>>

Disconnect ==
    /\ pc = "idle"
    /\ LET d == disconnect(Cur)
       IN /\ Apply(d)
          /\ lastOp' = Op("disconnect", NoArgs, d.ok, NoFrame, FALSE)
    /\ UNCHANGED <<handlers, auto_reconnect, trading, pc, delay, net, fails>>

\* async with stream: the scope is entered
AEnter(outcome, how) ==
    /\ pc = "idle"
    /\ net \/ outcome = "open_raises"
    /\ ResubscribeSends(outcome) \/ how = "ok"
    /\ LET c == aenter(Cur, outcome, how)
       IN /\ Apply(c)
          /\ lastOp' = Op("aenter", NoArgs, c.ok, NoFrame, FALSE)
          /\ fails' = IF c.authenticated /\ c.ws = "open" THEN 0 ELSE fails
    /\ UNCHANGED <<handlers, auto_reconnect, trading, pc, delay, net>>

\* the scope is left, the body having returned or raised (exc)
AExit(exc) ==
    /\ pc = "idle"
    /\ LET x == aexit(Cur, exc)
       IN /\ Apply(x)
          /\ lastOp' = Op(IF exc THEN "aexit_exc" ELSE "aexit", NoArgs, x.ok, NoFrame, FALSE)
    /\ UNCHANGED <<handlers, auto_reconnect, trading, pc, delay, net, fails>>

Stop ==
    /\ pc # "idle"
    /\ Apply([Cur EXCEPT !.running = FALSE])
    /\ lastOp' = Op("stop", NoArgs, TRUE, NoFrame, FALSE)
    /\ UNCHANGED <<handlers, auto_reconnect, trading, pc, delay, net, fails>>

\* ---------------------------------------------------------------- run()
RunStart ==
    /\ pc = "idle"
    /\ Apply([Cur EXCEPT !.running = TRUE])
    /\ pc' = "top"
    /\ lastOp' = Op("run", NoArgs, TRUE, NoFrame, FALSE)
    /\ UNCHANGED <<handlers, auto_reconnect, trading, delay, net, fails>>

\* the loop is left: break, or the loop condition is false
Leave(s, name, ok) ==
    /\ Apply(run_exit(s))
    /\ pc' = "idle"
    /\ lastOp' = Op(name, NoArgs, ok, NoFrame, TRUE)

\* _reconnect() from its start to its sleep; if it refuses, run() breaks
Reconnect(s, name) ==
    IF ReconnectRefused(s)
    THEN Leave(s, name, FALSE) /\ delay' = delay
    ELSE /\ Apply([s EXCEPT !.reconnect_count = @ + 1])
         /\ delay' = Backoff(s.reconnect_count + 1)
         /\ pc' = "backoff"
         /\ lastOp' = Op(name, NoArgs, TRUE, NoFrame, FALSE)

\* the loop condition and the test of _connected
RunTop ==
    /\ pc = "top"
    /\ IF ~running THEN Leave(Cur, "run_top", TRUE) /\ delay' = delay
       ELSE IF ~connected THEN Reconnect(Cur, "run_top")
       ELSE /\ Apply(Cur)
            /\ pc' = "recv"
            /\ lastOp' = Op("run_top", NoArgs, TRUE, NoFrame, FALSE)
            /\ delay' = delay
    /\ UNCHANGED <<handlers, auto_reconnect, trading, net, fails>>

\* the sleep of _reconnect() is over: connect(), and run() breaks on False
RunBackoff(outcome, how) ==
    /\ pc = "backoff"
    /\ net \/ outcome = "open_raises"
    /\ ResubscribeSends(outcome) \/ how = "ok"
    /\ delay' = 0
    /\ LET c == connect(Cur, outcome, how)
       IN IF c.ok
          THEN /\ Apply(c)
               /\ pc' = "top"
               /\ lastOp' = Op("run_backoff", NoArgs, TRUE, NoFrame, FALSE)
               /\ fails' = 0
          ELSE /\ Leave(c, "run_backoff", FALSE)
               /\ fails' = Min(fails + 1, reconnect_attempts)
    /\ UNCHANGED <<handlers, auto_reconnect, trading, net>>

\* the except branch without "if not self._running: break"
ExceptIgnoresStop(s, name) ==
    LET t == [s EXCEPT !.connected = FALSE]
    IN IF auto_reconnect THEN Reconnect(t, name)
       ELSE Leave(t, name, FALSE) /\ delay' = delay

\* the except branch that goes to the sleep of _reconnect() whatever the
\* configuration says
ExceptReconnectsRegardless(s, name) ==
    IF ~s.running THEN Leave(s, name, TRUE) /\ delay' = delay
    ELSE /\ Apply([s EXCEPT !.connected = FALSE, !.reconnect_count = @ + 1])
         /\ delay' = Backoff(s.reconnect_count + 1)
         /\ pc' = "backoff"
         /\ lastOp' = Op(name, NoArgs, TRUE, NoFrame, FALSE)

\* the except branch of run()
Except(s, name) ==
    IF ~s.running THEN Leave(s, name, TRUE) /\ delay' = delay
    ELSE LET t == [s EXCEPT !.connected = FALSE]
         IN IF auto_reconnect THEN Reconnect(t, name)
            ELSE Leave(t, name, FALSE) /\ delay' = delay

\* run() with an except clause that does not catch what _handle_message
\* raises: the exception leaves run()
RunRecvUncaught ==
    /\ pc = "recv"
    /\ ws = "open"
    /\ inbox # <<>>
    /\ LET h == handle_message([Cur EXCEPT !.inbox = Tail(@)], Head(inbox))
       IN /\ Apply(h)
          /\ pc' = IF h.ok THEN "top" ELSE "idle"
          /\ lastOp' = Op(IF h.ok THEN "run_recv" ELSE "run_except", NoArgs, h.ok,
                          IF h.ok THEN Head(inbox) ELSE NoFrame, FALSE)
    /\ UNCHANGED <<handlers, auto_reconnect, trading, delay, net, fails>>

\* recv() returns a frame and _handle_message dispatches it; what
\* _handle_message raises is caught by the except branch of run()
RunRecv ==
    /\ pc = "recv"
    /\ ws = "open"
    /\ inbox # <<>>
    /\ LET h == handle_message([Cur EXCEPT !.inbox = Tail(@)], Head(inbox))
       IN IF h.ok
          THEN /\ Apply(h)
               /\ pc' = "top"
               /\ lastOp' = Op("run_recv", NoArgs, TRUE, Head(inbox), FALSE)
               /\ delay' = delay
          ELSE Except(h, "run_except")
    /\ UNCHANGED <<handlers, auto_reconnect, trading, net, fails>>

\* recv() raises: the except branch of run()
RunRaise ==
    /\ pc = "recv"
    /\ ws # "open"
    /\ Except(Cur, "run_raise")
    /\ UNCHANGED <<handlers, auto_reconnect, trading, net, fails>>

\* ---------------------------------------------------------------- peer
Peer(s) ==
    /\ Apply(s)
    /\ lastOp' = Op("peer", NoArgs, TRUE, NoFrame, FALSE)
    /\ UNCHANGED <<handlers, auto_reconnect, trading, pc, delay, fails>>

\* the peer streams a frame for the symbols it was asked for
ServerPush(frame) ==
    /\ ws = "open"
    /\ srv = "subscribed"
    /\ Len(inbox) < MaxInbox
    /\ Peer([Cur EXCEPT !.inbox = Append(@, frame)])
    /\ net' = net

\* the same, with up to MaxBacklog frames waiting to be received
ServerStream(frame) ==
    /\ ws = "open"
    /\ srv = "subscribed"
    /\ Len(inbox) < MaxBacklog
    /\ Peer([Cur EXCEPT !.inbox = Append(@, frame)])
    /\ net' = net

\* the connection is lost; what was queued on it is lost with it
TransportDrop ==
    /\ ws = "open"
    /\ Peer([Cur EXCEPT !.ws = "closed", !.inbox = <<>>, !.srv = "none"])
    /\ net' = net

\* the network goes down and stays down
NetDown ==
    /\ net
    /\ Peer([Cur EXCEPT !.ws = IF @ = "open" THEN "closed" ELSE @,
                        !.inbox = <<>>, !.srv = "none"])
    /\ net' = FALSE

\* the caller's steps, the arguments of subscribe and unsubscribe drawn from
\* subArgs and unsubArgs
CallerSteps(subArgs, unsubArgs) ==
    \/ \E o \in ConnectOutcomes, how \in TransportModes : Connect(o, how)
    \/ \E a \in subArgs, how \in TransportModes : Subscribe(a, how)
    \/ \E a \in unsubArgs, how \in TransportModes : Unsubscribe(a, how)
    \/ Disconnect

\* run() and stop(), without the frames
RunSteps ==
    \/ RunStart
    \/ Stop
    \/ RunTop
    \/ \E o \in ConnectOutcomes, how \in TransportModes : RunBackoff(o, how)
    \/ RunRaise

\* the peer streams and run() receives
FrameSteps ==
    \/ \E f \in PushFrames : ServerPush(f)
    \/ RunRecv

\* a session with the whole registry in use, no handler registered and a
\* peer that streams nothing
Next == CallerSteps(SubscribeArgs, UnsubscribeArgs) \/ RunSteps \/ TransportDrop
Spec == Init /\ [][Next]_vars

\* the same caller on a session it never runs: connect, subscribe,
\* unsubscribe, disconnect
RegistryNext == CallerSteps(SubscribeArgs, UnsubscribeArgs) \/ TransportDrop
RegistrySpec == Init /\ [][RegistryNext]_vars

\* a session that follows one symbol, with handlers and a streaming peer
OneSymbol(chans) == {ArgsOf(chans, {<<"trades", "AAPL">>})}
StreamNext ==
    \/ CallerSteps(OneSymbol(Channels), OneSymbol(UnsubChannels))
    \/ RunSteps
    \/ FrameSteps
    \/ TransportDrop
DispatchNext ==
    \/ \E k \in HandlerKinds, b \in Behaviours : On(k, b)
    \/ StreamNext
DispatchSpec == Init /\ [][DispatchNext]_vars

\* the same session without handlers, on a network that can go down for good.
\* run() is a task the event loop keeps scheduling: its steps that need no
\* frame from the peer are taken once they can be
FairNext == StreamNext \/ NetDown
StreamSpec == Init /\ [][FairNext]_vars
FairSpec ==
    /\ StreamSpec
    /\ WF_vars(RunTop) /\ WF_vars(RunRaise)
    /\ WF_vars(\E o \in ConnectOutcomes, how \in TransportModes : RunBackoff(o, how))

\* a session with handlers for trades and quotes, plain and coroutine
\* functions, and a peer that streams ahead of run()
OrderNext ==
    \/ \E k \in DataKinds, b \in AwaitBehaviours : On(k, b)
    \/ \E o \in ConnectOutcomes, how \in TransportModes : Connect(o, how)
    \/ \E a \in OneSymbol(Channels), how \in TransportModes : Subscribe(a, how)
    \/ RunSteps
    \/ \E f \in DataFrames : ServerStream(f)
    \/ RunRecv
    \/ TransportDrop
OrderSpec == Init /\ [][OrderNext]_vars

\* a session with handlers for errors and for its own events, and a peer
\* that sends trades, errors and frames that are malformed or tagged like
\* those events
ProtocolFrames ==
    {Batch(<<"t">>), Batch(<<"error">>)} \cup MalformedFrames \cup LifecycleFrames
ProtocolNext ==
    \/ \E k \in {"error"} \cup LifecycleKinds, b \in Behaviours : On(k, b)
    \/ CallerSteps(OneSymbol(Channels), OneSymbol(UnsubChannels))
    \/ RunSteps
    \/ \E f \in ProtocolFrames : ServerPush(f)
    \/ RunRecv
    \/ TransportDrop
ProtocolSpec == Init /\ [][ProtocolNext]_vars

\* a TradingStream: the caller also uses the subscribe() it inherits, and the
\* peer streams order updates
TradeUpdateFrames == {Batch(<<"trade_updates">>), Batch(<<"trade_updates", "trade_updates">>)}
TradingNext ==
    \/ \E o \in ConnectOutcomes, how \in TransportModes : Connect(o, how)
    \/ \E a \in OneSymbol(Channels), how \in TransportModes : Subscribe(a, how)
    \/ \E how \in TransportModes : SubscribeTradeUpdates(how)
    \/ Disconnect
    \/ RunSteps
    \/ \E f \in TradeUpdateFrames : ServerPush(f)
    \/ RunRecv
    \/ TransportDrop
TradingSpec == TradingInit /\ [][TradingNext]_vars

\* a session used as "async with stream:", the body subscribing and running
ScopeNext ==
    \/ \E o \in ConnectOutcomes, how \in TransportModes : AEnter(o, how)
    \/ \E a \in OneSymbol(Channels), how \in TransportModes : Subscribe(a, how)
    \/ Disconnect
    \/ RunSteps
    \/ FrameSteps
    \/ TransportDrop
    \/ \E exc \in BOOLEAN : AExit(exc)
ScopeSpec == Init /\ [][ScopeNext]_vars

\* a session with handlers under "subscription", "t" and "error", and a peer
\* whose frames mix acknowledgments, errors and data
RoutingKinds == {"subscription", "t", "error"}
RoutingFrames ==
    {Batch(<<"t">>), Batch(<<"error", "q">>), Batch(<<"subscription", "t">>)}
RoutingNext ==
    \/ \E k \in RoutingKinds : On(k, "returns")
    \/ \E o \in ConnectOutcomes, how \in TransportModes : Connect(o, how)
    \/ \E a \in OneSymbol(Channels), how \in TransportModes : Subscribe(a, how)
    \/ RunSteps
    \/ \E f \in RoutingFrames : ServerPush(f)
    \/ RunRecv
    \/ TransportDrop
RoutingSpec == Init /\ [][RoutingNext]_vars

\* a session whose peer answers the auth message with batches
AuthNext ==
    \/ \E r \in AuthReplies, how \in TransportModes : ConnectAuth(r, how)
    \/ \E a \in OneSymbol(Channels), how \in TransportModes : Subscribe(a, how)
    \/ Disconnect
    \/ RunSteps
    \/ TransportDrop
AuthSpec == Init /\ [][AuthNext]_vars

\* ---------------------------------------------------------------- properties
CountOf(seq, x) == Cardinality({i \in DOMAIN seq : seq[i] = x})

\* the registry as a subscribe message carries it: the channels that hold a
\* symbol, each with its symbols
Snapshot(subs) == [c \in {d \in Channels : subs[d] # {}} |-> subs[c]]

\* C1: after a reconnect made by run() has succeeded, the request sent behind
\* the authentication is one subscribe message that carries, for each of the
\* six channels, exactly the symbols the registry holds, empty channels left out
C1_ResubscribeIsRegistry ==
    (lastOp.op = "run_backoff" /\ lastOp.ok /\ Snapshot(subscriptions) # <<>>) =>
        sentMsgs = <<AuthMsg, [action |-> "subscribe", chans |-> Snapshot(subscriptions)]>>

\* C2: with auto-reconnect on, run() does not return after a failed attempt
\* while the counter is below reconnect_attempts; it returns only when stop()
\* was called or the counter has reached reconnect_attempts
C2_FailedAttemptRetries ==
    /\ (lastOp.op = "run_backoff" /\ ~lastOp.ok /\ auto_reconnect /\ ~lastOp.stopped
           /\ reconnect_count < reconnect_attempts) => pc # "idle"
    /\ (lastOp.exit /\ auto_reconnect) =>
           (lastOp.stopped \/ reconnect_count >= reconnect_attempts)

\* C3: the delay slept before the n-th failed attempt in a row is
\* min(base * 2^(n-1), max_delay), for n up to reconnect_attempts (a failed
\* attempt does not reset the counter), and is never above max_delay
C3_BackoffOfFailuresInARow ==
    (pc = "backoff" /\ fails < reconnect_attempts) =>
        /\ delay = Min(reconnect_delay * Pow2(fails), max_reconnect_delay)
        /\ delay <= max_reconnect_delay

\* C4: the step in which run() returns has called disconnect() and emitted
\* "disconnected" once, as its last event; no step inside run() emits it
C4_DisconnectedOncePerRun ==
    /\ lastOp.exit =>
           /\ CountOf(emitted, "disconnected") = 1
           /\ emitted[Len(emitted)] = "disconnected"
           /\ pc = "idle" /\ ~running /\ ws = "none" /\ ~connected /\ ~authenticated
    /\ pc # "idle" => CountOf(emitted, "disconnected") = 0

\* run() has returned because the attempts are used up
C4_Witness ==
    /\ lastOp.exit /\ auto_reconnect /\ ~lastOp.stopped
    /\ reconnect_count = reconnect_attempts
    /\ emitted = <<"disconnected">>

\* C5: once the network is down for good while run() is active, run() returns,
\* and when it returns the session is closed: no transport, not connected,
\* not authenticated
C5_RunReturnsClosed ==
    (pc # "idle" /\ ~net) ~>
        (lastOp.exit /\ pc = "idle" /\ ws = "none" /\ ~connected /\ ~authenticated)

\* run() has returned from a failed attempt on the dead network
C5_Witness ==
    ~net /\ lastOp.exit /\ lastOp.op = "run_backoff" /\ ws = "none" /\ ~authenticated

\* the invocations a frame asks for: per message, every handler of its kind
ExpectedCalls(frame) ==
    LET msgs == messages(frame)
    IN UNION {{<<m, msgs[m].T, i>> : i \in 1..Len(handlers[msgs[m].T])} :
                 m \in {n \in 1..Len(msgs) : msgs[n].T # "subscription"}}

\* C6: whatever the handlers do, a frame run() received has every handler of
\* every message of it invoked once, and run() is back at the top of its loop,
\* still connected, with no reconnection started
C6_HandlerErrorIsolated ==
    lastOp.op = "run_recv" =>
        /\ \A c \in ExpectedCalls(lastOp.ret) : CountOf(calls, c) = 1
        /\ Len(calls) = Cardinality(ExpectedCalls(lastOp.ret))
        /\ pc = "top" /\ connected /\ ~lastOp.exit /\ delay = 0

\* the first handler of "t" raises, the second is invoked all the same, and so
\* are both for the next message of the batch
C6_Witness ==
    /\ lastOp.op = "run_recv" /\ lastOp.ret = Batch(<<"t", "t">>)
    /\ handlers["t"] = <<"raises", "returns">>
    /\ calls = << <<1, "t", 1>>, <<1, "t", 2>>, <<2, "t", 1>>, <<2, "t", 2>> >>

\* C7: subscribe on a session that is not authenticated fails and sends nothing
C7_SubscribeNeedsAuth ==
    (lastOp.op = "subscribe" /\ ~lastOp.wasAuth) => (~lastOp.ok /\ sentMsgs = <<>>)

\* C8: the frame subscribe or unsubscribe returns is the peer's acknowledgment
\* (the peer acknowledges on an authenticated connection)
C8_ReturnsAcknowledgment ==
    (lastOp.op \in {"subscribe", "unsubscribe"} /\ lastOp.ok
        /\ srv \in {"auth", "subscribed"}) => lastOp.ret = AckFrame

\* C9: every symbol the registry holds, in any of the six channels, is removed
\* by some call of unsubscribe
C9_UnsubscribeSymmetric ==
    \A c \in Channels : \A x \in subscriptions[c] :
        \E a \in UnsubscribeArgs : x \notin UnsubscribeRegistry(subscriptions, a)[c]

\* C10: after unsubscribe the registry holds what it held before, less the
\* symbols given, uppercased, in the channels they were given for
C10_UnsubscribeRemovesOnlyGiven ==
    lastOp.op = "unsubscribe" =>
        \A c \in Channels : \A x \in Symbols :
            x \in subscriptions[c] <=>
                /\ x \in lastOp.before[c]
                /\ ~(c \in DOMAIN lastOp.args /\ \E y \in lastOp.args[c] : upper(y) = x)

\* unsubscribe(trades=["aapl"]) took AAPL out of trades and left MSFT
C10_Witness ==
    /\ lastOp.op = "unsubscribe"
    /\ lastOp.args["trades"] = {"aapl"}
    /\ lastOp.before["trades"] = {"AAPL", "MSFT"}
    /\ subscriptions["trades"] = {"MSFT"}

\* the values of a frame as _handle_message walks them
Elements(frame) == IF frame.json = "array" THEN frame.items ELSE <<frame>>

\* invocations in the order of the messages, and per message in list order
InOrder(cs) ==
    \A i, j \in DOMAIN cs :
        i < j => (cs[i][1] < cs[j][1] \/ (cs[i][1] = cs[j][1] /\ cs[i][3] < cs[j][3]))

\* C11: run() takes the frames in the order the transport has them, one per
\* receive, and the handlers are invoked message by message in the order of the
\* frame's elements: every invocation for one message comes before any for the
\* next, and a message with handlers is not skipped
C11_DeliveredInOrder ==
    [][lastOp'.op = "run_recv" =>
          /\ inbox # <<>>
          /\ lastOp'.ret = Head(inbox)
          /\ inbox' = Tail(inbox)
          /\ InOrder(calls')
          /\ LET es == Elements(Head(inbox))
             IN /\ \A i \in DOMAIN calls' :
                       /\ calls'[i][1] \in DOMAIN es
                       /\ calls'[i][2] = es[calls'[i][1]].T
                /\ \A m \in DOMAIN es :
                       handlers[es[m].T] # <<>> => \E i \in DOMAIN calls' : calls'[i][1] = m
      ]_vars

\* a batch was delivered trade first, quote second, with the next frame
\* still waiting
C11_Witness ==
    /\ lastOp.op = "run_recv" /\ lastOp.ret = Batch(<<"t", "q">>)
    /\ inbox # <<>>
    /\ calls = << <<1, "t", 1>>, <<2, "q", 1>> >>

\* the invocations of calls that are for message m, in the order they were made
RECURSIVE CallsFor(_, _)
CallsFor(cs, m) ==
    IF cs = <<>> THEN <<>>
    ELSE IF Head(cs)[1] = m THEN <<Head(cs)>> \o CallsFor(Tail(cs), m)
    ELSE CallsFor(Tail(cs), m)

\* C12: a message of a kind with several handlers has every one of them
\* invoked once, the first registered first, each invocation (a coroutine
\* function is awaited) over before the next is made
C12_AllHandlersInRegistrationOrder ==
    lastOp.op = "run_recv" =>
        LET es == Elements(lastOp.ret)
        IN \A m \in DOMAIN es :
               CallsFor(calls, m) = [i \in 1..Len(handlers[es[m].T]) |-> <<m, es[m].T, i>>]

\* a coroutine function registered first and a plain function registered
\* second were invoked in that order for one trade
C12_Witness ==
    /\ lastOp.op = "run_recv" /\ lastOp.ret = Batch(<<"t">>)
    /\ handlers["t"] = <<"suspends", "returns">>
    /\ calls = << <<1, "t", 1>>, <<1, "t", 2>> >>

\* C13: in every state of the session, a frame that is one object and a frame
\* that is an array of that object alone are dispatched alike: the same
\* invocations in the same order, the same events, the same session after
C13_ObjectIsOneElementArray ==
    \A v \in {Obj(k) : k \in HandlerKinds} \cup {Num} :
        handle_message(Cur, v) = handle_message(Cur, Arr(<<v>>))

\* run() has dispatched a frame that is a single trade object to its handler
C13_Witness ==
    /\ lastOp.op = "run_recv" /\ lastOp.ret = Obj("t")
    /\ calls = << <<1, "t", 1>> >>

\* C14: stop() changes nothing but the flag: run() stays where it is and the
\* frames stay queued. Once stop() was called, a run() waiting in recv moves
\* on only by dispatching the one frame that arrives or by returning, and a
\* run() at the top of its loop only by returning: no second frame, no
\* reconnection
C14_StopTakesEffectAfterReceive ==
    [][/\ lastOp'.op = "stop" => (~running' /\ pc' = pc /\ inbox' = inbox /\ ws' = ws)
       /\ (~running /\ pc = "recv" /\ pc' # pc) =>
              (lastOp'.exit \/ (lastOp'.op = "run_recv" /\ pc' = "top"))
       /\ (~running /\ pc = "top" /\ pc' # pc) => lastOp'.exit
      ]_vars

\* the receive that was in flight when stop() was called has completed with
\* a frame, which was dispatched
C14_Witness ==
    lastOp.op = "run_recv" /\ lastOp.stopped /\ pc = "top" /\ ~running

\* C15: a frame that cannot be decoded, or that decodes to something other
\* than an object or an array of objects, is dropped: run() is back at the top
\* of its loop on the same connection, still connected, and no reconnection
\* is started
IsMalformed(frame) ==
    \/ frame = Undecodable
    \/ \E i \in DOMAIN Elements(frame) : Elements(frame)[i].json # "object"
C15_MalformedFrameDropped ==
    [][(pc = "recv" /\ ws = "open" /\ inbox # <<>> /\ IsMalformed(Head(inbox))
           /\ running /\ lastOp'.op \in {"run_recv", "run_except"}) =>
          /\ pc' = "top" /\ connected' /\ ws' = "open" /\ inbox' = Tail(inbox)
          /\ reconnect_count' = reconnect_count /\ delay' = 0 /\ ~lastOp'.exit
      ]_vars

\* C16: with auto-reconnect off, run() is never in the sleep of _reconnect(),
\* and the step in which recv() failed is the step in which run() returns:
\* nothing is sent, the only event is "disconnected", the session is closed
C16_NoReconnectWhenDisabled ==
    /\ ~auto_reconnect => (pc # "backoff" /\ delay = 0 /\ reconnect_count = 0)
    /\ (lastOp.op = "run_raise" /\ ~auto_reconnect) =>
           /\ lastOp.exit /\ pc = "idle"
           /\ sentMsgs = <<>> /\ emitted = <<"disconnected">>
           /\ ws = "none" /\ ~connected /\ ~authenticated /\ ~running

\* run() has returned from a transport error, stop() not called
C16_Witness ==
    /\ lastOp.op = "run_raise" /\ ~auto_reconnect /\ ~lastOp.stopped
    /\ lastOp.exit /\ emitted = <<"disconnected">>

\* C17: a step of run() either leaves it in its loop or is the step in which
\* it returns through the disconnect() behind the loop; run() is never left
\* any other way
RunOps == {"run", "run_top", "run_backoff", "run_recv", "run_except", "run_raise"}
C17_RunNeverRaises ==
    lastOp.op \in RunOps =>
        \/ pc # "idle"
        \/ /\ lastOp.exit /\ ~running /\ ws = "none" /\ ~connected
           /\ emitted # <<>> /\ emitted[Len(emitted)] = "disconnected"

\* _handle_message raised on a malformed frame and run() is in the sleep of
\* _reconnect()
C17_Witness ==
    lastOp.op = "run_except" /\ pc = "backoff" /\ ~lastOp.exit

\* C18: "connected" is emitted only by connect(), "disconnected" only by
\* disconnect() (called, or behind the loop of run()), and a handler
\* registered for either is invoked for the session's own event only, never
\* for a message of a frame
C18_LifecycleEventsOnlyFromSession ==
    /\ CountOf(emitted, "connected") > 0 => lastOp.op \in {"connect", "run_backoff"}
    /\ CountOf(emitted, "disconnected") > 0 => (lastOp.op = "disconnect" \/ lastOp.exit)
    /\ \A i \in DOMAIN calls : calls[i][2] \in LifecycleKinds => calls[i][1] = 0

\* C19: a subscribe that fails leaves the symbols it was called with in the
\* registry; nothing but unsubscribe takes a symbol out of the registry; and
\* the step in which a reconnect of run() succeeds sends a subscribe message
\* that holds every symbol of the registry under its channel
C19_FailedSubscribeIsResubscribed ==
    [][/\ (lastOp'.op = "subscribe" /\ ~lastOp'.ok) =>
              \A a \in SubscribeArgs, how \in TransportModes :
                  Subscribe(a, how) =>
                      \A c \in Channels : UpperAll(a[c]) \subseteq subscriptions'[c]
       /\ lastOp'.op # "unsubscribe" =>
              \A c \in Channels : subscriptions[c] \subseteq subscriptions'[c]
       /\ (lastOp'.op = "run_backoff" /\ lastOp'.ok) =>
              \A c \in Channels : \A x \in subscriptions'[c] :
                  \E i \in DOMAIN sentMsgs' :
                      /\ sentMsgs'[i].action = "subscribe"
                      /\ c \in DOMAIN sentMsgs'[i].chans
                      /\ x \in sentMsgs'[i].chans[c]
      ]_vars

\* two sessions alike but for sentMsgs and what the peer was asked for
AlikeButRequests(a, b) ==
    [a EXCEPT !.sentMsgs = <<>>, !.srv = "none"] = [b EXCEPT !.sentMsgs = <<>>, !.srv = "none"]

\* C20: a TradingStream sends the listen command behind the authentication
\* of every connect() that authenticates, and no subscribe message, whatever
\* the registry holds; and in every state it reaches, connect() does to it
\* what it does to an AlpacaStream in that state, the request of
\* _resubscribe aside: the same flags, counter, registry, events and
\* handler invocations, and the same result when the request goes through
\* or when both send one and it fails
C20_TradingDiffersInResubscriptionOnly ==
    /\ trading
    /\ lastOp.op \in {"connect", "run_backoff"} =>
           /\ \A i \in DOMAIN sentMsgs : sentMsgs[i].action # "subscribe"
           /\ lastOp.ok => sentMsgs = <<AuthMsg, ListenMsg>>
    /\ \A o \in ConnectOutcomes, how \in TransportModes :
           LET t == connect_of(TRUE, Cur, o, how)
               m == connect_of(FALSE, Cur, o, how)
           IN /\ o # "authenticated" => t = m
              /\ (how = "ok" \/ ResubscribeNeeded(subscriptions)) => AlikeButRequests(t, m)
              /\ Len(t.sentMsgs) > 0 => t.sentMsgs[1] = AuthMsg /\ m.sentMsgs[1] = AuthMsg

\* run() has reconnected a TradingStream whose registry holds a symbol
C20_Witness ==
    /\ trading /\ lastOp.op = "run_backoff" /\ lastOp.ok
    /\ subscriptions["trades"] = {"AAPL"}
    /\ sentMsgs = <<AuthMsg, ListenMsg>>

\* a session with the logs of the step left out
Quiet(s) == [s EXCEPT !.emitted = <<>>, !.calls = <<>>, !.sentMsgs = <<>>]

\* C21: in every state, disconnect() raises nothing and leaves no transport,
\* not connected, not authenticated, and a second disconnect() changes
\* nothing of that; so it is after a disconnect() that was called
C21_DisconnectIdempotent ==
    /\ LET d == disconnect(Cur)
           dd == disconnect(d)
       IN /\ d.ok /\ d.ws = "none" /\ ~d.connected /\ ~d.authenticated
          /\ dd.ok /\ Quiet(dd) = Quiet(d)
    /\ lastOp.op = "disconnect" =>
           lastOp.ok /\ ws = "none" /\ ~connected /\ ~authenticated /\ ~running

\* disconnect() was called on a session whose transport was already closed
C21_Witness ==
    /\ lastOp.op = "disconnect" /\ lastOp.wsWas = "closed"
    /\ lastOp.ok /\ ws = "none" /\ ~connected /\ ~authenticated

\* C22: when the scope is left the session is closed, whatever the body did
\* and whatever state it left (run() returned, connection lost, connect
\* failed), and the statement ends with the body's exception exactly when
\* the body raised
C22_ScopeExitReleases ==
    lastOp.op \in {"aexit", "aexit_exc"} =>
        /\ ws = "none" /\ ~connected /\ ~authenticated /\ ~running
        /\ emitted = <<"disconnected">>
        /\ lastOp.ok <=> lastOp.op = "aexit"

\* the body raised on an open, authenticated session
C22_Witness ==
    /\ lastOp.op = "aexit_exc" /\ lastOp.wsWas = "open" /\ lastOp.wasAuth
    /\ ~lastOp.ok /\ ws = "none" /\ ~authenticated

\* C23: the step in which a reconnect of run() succeeds leaves the counter
\* at 0, has emitted "connected" and nothing else, has invoked no handler
\* but those of "connected", and has sent, behind the auth message, the
\* registry as one subscribe message that names every channel holding a
\* symbol (no message when the registry is empty)
C23_ResetConnectedThenOneReplay ==
    (lastOp.op = "run_backoff" /\ lastOp.ok) =>
        /\ reconnect_count = 0
        /\ emitted = <<"connected">>
        /\ \A i \in DOMAIN calls : calls[i][2] = "connected"
        /\ sentMsgs[1] = AuthMsg
        /\ Len(sentMsgs) = IF Snapshot(subscriptions) = <<>> THEN 1 ELSE 2
        /\ Len(sentMsgs) = 2 =>
               /\ sentMsgs[2].action = "subscribe"
               /\ DOMAIN sentMsgs[2].chans = DOMAIN Snapshot(subscriptions)

\* the events one frame asks for: "error" always, another kind if it has
\* handlers, "subscription" never
ExpectedEvents(frame) ==
    LET es == Elements(frame)
        kinds == [m \in DOMAIN es |-> es[m].T]
        Emits(k) == k = "error" \/ (k # "subscription" /\ handlers[k] # <<>>)
    IN SelectSeq(kinds, Emits)

\* C24: for a frame run() received, each element is routed by its kind:
\* "subscription" invokes nothing, whatever is registered under it; any
\* other kind invokes exactly the handlers registered under it (for "error",
\* those of the "error" event); and in every state, handling a frame changes
\* nothing of the session
C24_RoutedByKind ==
    /\ lastOp.op = "run_recv" =>
           LET es == Elements(lastOp.ret)
           IN /\ \A m \in DOMAIN es :
                     CallsFor(calls, m) =
                         IF es[m].T = "subscription" THEN <<>>
                         ELSE [i \in 1..Len(handlers[es[m].T]) |-> <<m, es[m].T, i>>]
              /\ emitted = ExpectedEvents(lastOp.ret)
    /\ \A f \in Frames : Quiet(handle_message(Cur, f)) = Cur

\* an acknowledgment was received with a handler registered under
\* "subscription", and nothing was invoked
C24_Witness ==
    /\ lastOp.op = "run_recv" /\ lastOp.ret = AckFrame
    /\ handlers["subscription"] # <<>>
    /\ calls = <<>> /\ emitted = <<>>

\* C25: the first element of the reply that is the authentication success
\* or an error decides: with the success first, connect() has authenticated
\* (is_authenticated true, "connected" emitted) and fails only if its
\* resubscription does; with an error first, or neither in the reply,
\* connect() returns False, emits nothing and is_authenticated is what it was
C25_FirstAuthElementDecides ==
    (lastOp.op = "connect" /\ lastOp.ret # NoFrame) =>
        LET es == Elements(lastOp.ret)
            decisive == {i \in DOMAIN es :
                            \/ es[i].T = "success" /\ es[i].msg = "authenticated"
                            \/ es[i].T = "error"}
            first == CHOOSE i \in decisive : \A j \in decisive : i <= j
        IN IF decisive # {} /\ es[first].T = "success"
           THEN /\ authenticated /\ emitted[1] = "connected"
                /\ lastOp.ok <=> CountOf(emitted, "error") = 0
           ELSE /\ ~lastOp.ok /\ emitted = <<>>
                /\ authenticated <=> lastOp.wasAuth

\* the reply held an error before the success, and the error decided
C25_Witness ==
    /\ lastOp.op = "connect"
    /\ lastOp.ret = Arr(<<AuthObj("error", "auth failed"), AuthObj("success", "authenticated")>>)
    /\ ~lastOp.ok /\ ~authenticated

\* C26: after connect() the flags agree with what it returned: both true
\* when it returned True, both false when it returned False
C26_ConnectResultMatchesFlags ==
    lastOp.op = "connect" =>
        IF lastOp.ok THEN connected /\ authenticated
        ELSE ~connected /\ ~authenticated

\* the counter stays within 0..reconnect_attempts and grows only by one, in
\* a step that starts an attempt, from below the maximum
CounterGrowsWithAttempts ==
    /\ reconnect_count' \in 0..reconnect_attempts
    /\ reconnect_count' > reconnect_count =>
           /\ reconnect_count' = reconnect_count + 1
           /\ reconnect_count < reconnect_attempts
           /\ pc' = "backoff" /\ lastOp'.op \in {"run_top", "run_raise", "run_except"}
    /\ (pc' = "backoff" /\ pc # "backoff") => reconnect_count' = reconnect_count + 1

\* C27: in every step the attempt counter stays within
\* 0..reconnect_attempts, grows only by one and only in the step that starts
\* an attempt, which no step does at the maximum, and falls only to 0 and
\* only in a connect (of the caller or of an attempt) that returned True
\* with the session connected and authenticated
C27_AttemptCounterBounded ==
    [][/\ CounterGrowsWithAttempts
       /\ reconnect_count' < reconnect_count =>
              /\ reconnect_count' = 0
              /\ lastOp'.op \in {"connect", "run_backoff"}
              /\ lastOp'.ok /\ connected' /\ authenticated']_vars

\* C28: a session that is authenticated is connected
C28_AuthenticatedImpliesConnected == authenticated => connected

\* C29: every data message of a frame the session took from the transport,
\* in run() or as the reply read by subscribe or unsubscribe, has been
\* dispatched to the handlers of its kind when there are any
C29_NoDataMessageLost ==
    lastOp.ret # NoFrame =>
        LET es == Elements(lastOp.ret)
        IN \A m \in DOMAIN es :
               (es[m].T \in DataKinds /\ handlers[es[m].T] # <<>>) =>
                   CallsFor(calls, m) # <<>>

\* C30: a step of run() taken after stop() sends nothing and emits no
\* "connected": no connection is started once stop was requested
C30_NoConnectionAfterStop ==
    (lastOp.op \in RunOps \ {"run"} /\ lastOp.stopped) =>
        /\ sentMsgs = <<>>
        /\ CountOf(emitted, "connected") = 0
====
